---- MODULE Spec2Model ----
(***************************************************************************)
(* The DIM serial protocol of "old attempts/DIM GUI.py": the 3-byte packet *)
(* codec (sendDAC / readByte), the channel table r, and the synchronized   *)
(* move controller moveToTarget, together with the DIM device as the       *)
(* protocol header comment describes it.                                   *)
(*                                                                         *)
(* Python's packet[0..2] and r[0..13][2] are modelled as functions with    *)
(* the same indices.  The later runs add the sibling scripts that carry    *)
(* the same protocol code: FSM Slider.py and FSM_test_interface.py (a      *)
(* shorter table, a guarded or unguarded sendDAC, a one-byte readByte) and *)
(* FSM Sine.py (sendDAC called from threads).                              *)
(***************************************************************************)
EXTENDS Integers, Sequences, FiniteSets, TLC

VARIABLES
    byteNumber,     \* decoder position: 0, 1 or 2
    packetReady,    \* decoder flag, set on the third byte
    packet,         \* the 3-byte buffer shared by sendDAC and readByte
    r,              \* channel table: r[ch] is Python's r[ch][2]
    echo,           \* window keys 'd', 'c', 'm': last packet sent
    inWaiting,      \* fsmPort input buffer (bytes not yet read)
    wire,           \* bytes written with fsmPort.write, not yet taken by the DIM
    Xa, Ya,         \* the move controller's current values
    movesRemaining, \* the move controller's flag
    devReg, devOut, \* the DIM's DAC registers and DAC outputs
    emitted,        \* observer: the (d, channel, mode) of every updateR call of readByte
    nRead,          \* observer: number of bytes readByte has consumed
    last,           \* observer: decoder state before the last consumed byte, and that byte
    args,           \* the (d, channel, mode) a codec run sends
    nSent,          \* observer: number of sendDAC calls made
    src,            \* transport: bytes the DIM has put on the line, not yet arrived
    stream,         \* observer: the frames the DIM sent, and the line fault that hit them
    tick,           \* observer: pre-state, targets, post-state and bytes of the last move tick
    nTicks,         \* observer: number of move ticks made
    wireTag,        \* observer: per frame on the wire, the tick it ends and that tick's (Xa, Ya)
    devSnap,        \* observer: the (Xa, Ya) of the last tick the DIM has fully received
    script,         \* which of the GUI scripts is running
    fsmPort,        \* "unset" before the port is tried, then "open" (a Serial) or "none" (None)
    raised,         \* "none", or the exception that left the event loop and ended the process
    thr,            \* per writer thread of FSM Sine: its position in sendDAC and its local packet
    wireOwner,      \* observer: per byte of wire in the sine run, the thread that wrote it
    gui,            \* DIM GUI.py's event-loop globals: drawOption, drawStep, updateTarget,
                    \* valueCoarse, valueFine, value, DACn, xpos, ypos, event
    running,        \* FSM Sine.py's running_x and running_y
    devEeprom,      \* the DIM's EEPROM copy of its four DAC setpoints
    devLast,        \* observer: channel and mode of the frame the DIM took last
    feed,           \* observer: the bytes the line delivers in a byte run, in order
    sinceStop       \* observer: bytes a sine thread wrote while its running flag was False

decVars  == <<byteNumber, packetReady, packet>>
tabVars  == <<r, echo>>
moveVars == <<Xa, Ya, movesRemaining>>
devVars  == <<devReg, devOut, devSnap>>
obsVars  == <<emitted, nRead, last>>
envVars  == <<args, nSent, src, stream>>
tickVars == <<tick, nTicks, wireTag>>
sysVars  == <<script, fsmPort, raised, thr, wireOwner>>
ctlVars  == <<gui, running, devEeprom, devLast, feed, sinceStop>>
vars == <<decVars, tabVars, moveVars, devVars, obsVars, envVars, tickVars,
          sysVars, ctlVars, inWaiting, wire>>

----------------------------------------------------------------------------
(* Program constants *)

Unknown == -1           \* the "?" of a table entry or echo field never written
stepSize == 255         \* 0xFF
Mid == 32767            \* 0x7FFF
Full == 65535           \* 0xFFFF
NumRows == 14           \* rows of r

----------------------------------------------------------------------------
(* Python's integer bit operators; the left operand of & may be negative   *)
(* (two's complement, as in Python), every other operand is non-negative   *)

\* a & b and a | b, bit by bit from the lowest
BitAndOf[a \in Int, b \in Int] ==
    IF a = 0 \/ b = 0 THEN 0
    ELSE (a % 2) * (b % 2) + 2 * BitAndOf[a \div 2, b \div 2]

BitOrOf[a \in Int, b \in Int] ==
    IF a = 0 THEN b
    ELSE IF b = 0 THEN a
    ELSE (IF a % 2 = 1 \/ b % 2 = 1 THEN 1 ELSE 0) + 2 * BitOrOf[a \div 2, b \div 2]

BitAnd(a, b) == BitAndOf[a, b]

BitOr(a, b) == BitOrOf[a, b]

Shl(a, n) == a * (2 ^ n)

Shr(a, n) == a \div (2 ^ n)

Min(a, b) == IF a < b THEN a ELSE b

----------------------------------------------------------------------------
(* sendDAC: the three bytes it stores in packet and writes *)

Byte2(d) == BitOr(BitAnd(d, 255), 128)

Byte1Mutant(d) == BitOr(BitAnd(Shr(d, 8), 255), 128)

Byte1(d) == BitOr(BitAnd(Shr(d, 7), 255), 128)

Byte0Mutant(d, channel, mode) ==
    BitOr(BitOr(BitAnd(Shr(d, 14), 3), Shl(channel, 4)), Shl(mode, 3))

Byte0(d, channel, mode) ==
    BitOr(BitOr(BitAnd(Shr(d, 14), 3), Shl(channel, 4)), Shl(mode, 2))

\* the bytes of sendDAC's packet, packet[0] first
Frame(d, channel, mode) == <<Byte0(d, channel, mode), Byte1(d), Byte2(d)>>

UpdateRSkip7(tab, d, channel) ==
    IF channel \in DOMAIN tab /\ channel # 7 THEN [tab EXCEPT ![channel] = d] ELSE tab

UpdateRClear(tab, d, channel) ==
    [ch \in DOMAIN tab |-> IF ch = channel THEN d ELSE Unknown]

\* updateR: r[channel][2] = d (a channel off the table raises in the caller)
UpdateR(tab, d, channel) ==
    IF channel \in DOMAIN tab THEN [tab EXCEPT ![channel] = d] ELSE tab

----------------------------------------------------------------------------
(* readByte: the fields it extracts from a full packet buffer *)

DecodeDMutant(p) ==
    LET d0 == BitAnd(p[0], 3)
        d1 == BitOr(Shl(d0, 7), BitAnd(p[1], 63))
    IN  BitOr(Shl(d1, 7), BitAnd(p[2], 127))

DecodeD(p) ==
    LET d0 == BitAnd(p[0], 3)
        d1 == BitOr(Shl(d0, 7), BitAnd(p[1], 127))
    IN  BitOr(Shl(d1, 7), BitAnd(p[2], 127))

DecodeMode(p) == BitAnd(Shr(p[0], 2), 3)

DecodeChannel(p) == BitAnd(Shr(p[0], 4), 7)

\* The decoder as a record, so that the body of readByte's loop is a function.
DecState ==
    [byteNumber |-> byteNumber, packetReady |-> packetReady, packet |-> packet,
     r |-> r, emitted |-> emitted, nRead |-> nRead, last |-> last]

IsSyncMutant(b) == TRUE

\* (b & 0b10000000) == 0: b can start a packet
IsSync(b) == BitAnd(b, 128) = 0

AfterPacketMutant(n) == n

\* byteNumber = 0 once a packet is complete
AfterPacket(n) == 0

\* One iteration of readByte's while loop on byte b: the four ifs in order.
ReadStep(s, b) ==
    LET s0 == [s EXCEPT !.nRead = @ + 1,
                        !.last = [byteNumber |-> s.byteNumber, packet |-> s.packet,
                                  r |-> s.r, nEmitted |-> Len(s.emitted), b |-> b]]
        s1 == IF s0.byteNumber = 2
              THEN [s0 EXCEPT !.packet[2] = b, !.packetReady = TRUE]
              ELSE s0
        s2 == IF s1.byteNumber = 1
              THEN [s1 EXCEPT !.packet[1] = b, !.byteNumber = 2]
              ELSE s1
        s3 == IF s2.byteNumber = 0 /\ IsSync(b)
              THEN [s2 EXCEPT !.packet[0] = b, !.byteNumber = 1]
              ELSE s2
    IN  IF s3.packetReady
        THEN [s3 EXCEPT !.packetReady = FALSE,
                        !.byteNumber = AfterPacket(s3.byteNumber),
                        !.r = UpdateR(s3.r, DecodeD(s3.packet), DecodeChannel(s3.packet)),
                        !.emitted = Append(@, <<DecodeD(s3.packet),
                                                 DecodeChannel(s3.packet),
                                                 DecodeMode(s3.packet)>>)]
        ELSE s3

RECURSIVE Drain(_, _)
Drain(s, bytes) ==
    IF bytes = <<>> THEN s
    ELSE Drain(ReadStep(s, Head(bytes)), Tail(bytes))

----------------------------------------------------------------------------
(* Operations of the client *)

\* What sendDAC reads and writes, as a record.
OutState == [packet |-> packet, wire |-> wire, r |-> r, echo |-> echo]

\* sendDAC(d, channel, mode)
SendDAC(s, d, channel, mode) ==
    LET f == Frame(d, channel, mode)
    IN  [packet |-> [i \in 0..2 |-> f[i + 1]],
         wire   |-> s.wire \o f,
         r      |-> UpdateR(s.r, d, channel),
         echo   |-> <<d, channel, mode>>]

\* consecutive sendDAC calls, one per (d, channel, mode) of calls
RECURSIVE SendAll(_, _)
SendAll(s, calls) ==
    IF calls = <<>> THEN s
    ELSE SendAll(SendDAC(s, Head(calls)[1], Head(calls)[2], Head(calls)[3]),
                 Tail(calls))

Sent(calls) ==
    LET s == SendAll(OutState, calls)
    IN  /\ packet' = s.packet
        /\ wire' = s.wire
        /\ r' = s.r
        /\ echo' = s.echo

\* readByte(): drains every byte that is waiting
ReadByte ==
    /\ Len(inWaiting) > 0
    /\ LET s == Drain(DecState, inWaiting)
       IN  /\ byteNumber' = s.byteNumber
           /\ packetReady' = s.packetReady
           /\ packet' = s.packet
           /\ r' = s.r
           /\ emitted' = s.emitted
           /\ nRead' = s.nRead
           /\ last' = s.last
    /\ inWaiting' = <<>>
    /\ UNCHANGED <<ctlVars, sysVars, echo, wire, moveVars, devVars, envVars, tickVars>>

----------------------------------------------------------------------------
(* Initial values of the program's globals *)

NoLast == [byteNumber |-> 0, packet |-> [i \in 0..2 |-> 0],
           r |-> [ch \in 0..(NumRows - 1) |-> Unknown], nEmitted |-> 0, b |-> Unknown]

NoTick == [Xa |-> 0, Ya |-> 0, Xt |-> 0, Yt |-> 0, Xa2 |-> 0, Ya2 |-> 0,
           r |-> [ch \in 0..(NumRows - 1) |-> Unknown],
           echo |-> <<Unknown, Unknown, Unknown>>,
           r2 |-> [ch \in 0..(NumRows - 1) |-> Unknown],
           echo2 |-> <<Unknown, Unknown, Unknown>>,
           flag |-> FALSE, bytes |-> <<>>]

NoStream == [frames |-> <<>>, kind |-> "none", at |-> 0, b |-> Unknown]

InitGlobals ==
    /\ byteNumber = 0
    /\ packetReady = FALSE
    /\ packet = [i \in 0..2 |-> 0]
    /\ r = [ch \in 0..(NumRows - 1) |-> Unknown]
    /\ echo = <<Unknown, Unknown, Unknown>>
    /\ inWaiting = <<>>
    /\ wire = <<>>
    /\ Xa = 0
    /\ Ya = 0
    /\ movesRemaining = FALSE

\* the writer threads of FSM Sine: the two sine threads and the main loop
Threads == {"X", "Y", "main"}

NoThreads == [t \in Threads |-> [pc |-> "idle", buf |-> <<0, 0, 0>>, pos |-> 0, n |-> 0]]

\* the event-loop globals of DIM GUI.py as the script sets them (xpos and
\* ypos do not exist before the quad button)
NoGui == [drawOption |-> 0, drawStep |-> 0, updateTarget |-> FALSE,
          valueCoarse |-> Mid, valueFine |-> 0, value |-> 0, DACn |-> 0,
          xpos |-> Unknown, ypos |-> Unknown,
     event |-> "unset"]

InitControl ==
    /\ gui = NoGui
    /\ running = [t \in {"X", "Y"} |-> FALSE]
    /\ devEeprom = [ch \in 0..3 |-> Unknown]
    /\ devLast = <<Unknown, Unknown>>
    /\ feed = <<>>
    /\ sinceStop = [t \in {"X", "Y"} |-> 0]

\* DIM GUI.py with its port open, nothing raised, no thread started
InitSystem ==
    /\ InitControl
    /\ script = "DIM GUI"
    /\ fsmPort = "open"
    /\ raised = "none"
    /\ thr = NoThreads
    /\ wireOwner = <<>>

InitObservers ==
    /\ emitted = <<>>
    /\ nRead = 0
    /\ last = NoLast
    /\ nSent = 0
    /\ tick = NoTick
    /\ nTicks = 0
    /\ wireTag = <<>>

----------------------------------------------------------------------------
(* Codec run: one sendDAC whose frame the DIM feeds back ("Blue" feedback  *)
(* mode), read by readByte.                                                *)

Bits7 == {0, 1, 64, 127}

\* 16-bit values with every combination of the three fields of the frame
Values == {hi * 16384 + mid * 128 + lo : hi \in 0..3, mid \in Bits7, lo \in Bits7}

InitCodec ==
    /\ InitGlobals
    /\ InitObservers
    /\ InitSystem
    /\ args \in Values \X (0..7) \X (0..3)
    /\ src = <<>>
    /\ stream = NoStream
    /\ devReg = [ch \in 0..3 |-> Unknown]
    /\ devOut = [ch \in 0..3 |-> Unknown]
    /\ devSnap = <<0, 0>>

SendArgs ==
    /\ nSent = 0
    /\ Sent(<<args>>)
    /\ nSent' = nSent + 1
    /\ UNCHANGED <<ctlVars, sysVars, byteNumber, packetReady, inWaiting, moveVars, devVars, obsVars,
                   args, src, stream, tickVars>>

\* The DIM in "Blue" mode returns each byte of a setpoint packet to the client.
Feedback ==
    /\ Len(wire) > 0
    /\ inWaiting' = Append(inWaiting, Head(wire))
    /\ wire' = Tail(wire)
    /\ UNCHANGED <<ctlVars, sysVars, decVars, tabVars, moveVars, devVars, obsVars, envVars, tickVars>>

NextCodec == SendArgs \/ Feedback \/ ReadByte

SpecCodec == InitCodec /\ [][NextCodec]_vars

----------------------------------------------------------------------------
(* Stream run: the DIM sends MaxFrames well-formed frames; the serial line *)
(* may replace or lose one byte of them; readByte decodes what arrives.    *)

MaxFrames == 3      \* frames in the stream
MaxBurst == 2       \* bytes that may wait in the input buffer

FrameSamples == { <<32767, 0, 1>>, <<49280, 5, 2>> }

\* byte values a line fault may produce: both values of bit 7, with the
\* field bits of byte0 and the data bits all clear, single, and all set
ByteSamples == {0, 1, 3, 4, 12, 16, 64, 112, 127, 128, 129, 192, 255}

RECURSIVE Flatten(_)
Flatten(fs) ==
    IF fs = <<>> THEN <<>>
    ELSE Frame(Head(fs)[1], Head(fs)[2], Head(fs)[3]) \o Flatten(Tail(fs))

InitStream ==
    /\ InitGlobals
    /\ InitObservers
    /\ InitSystem
    /\ args = <<0, 0, 0>>
    /\ \E fs \in [1..MaxFrames -> FrameSamples] :
          /\ stream = [frames |-> fs, kind |-> "none", at |-> 0, b |-> Unknown]
          /\ src = Flatten(fs)
    /\ devReg = [ch \in 0..3 |-> Unknown]
    /\ devOut = [ch \in 0..3 |-> Unknown]
    /\ devSnap = <<0, 0>>

\* position in the stream (from 1) of the byte at the head of src
SrcPos == 3 * MaxFrames - Len(src) + 1

\* the next byte of the stream arrives intact
Arrive ==
    /\ Len(src) > 0
    /\ Len(inWaiting) < MaxBurst
    /\ inWaiting' = Append(inWaiting, Head(src))
    /\ src' = Tail(src)
    /\ UNCHANGED <<ctlVars, sysVars, decVars, tabVars, moveVars, devVars, obsVars, args, nSent, stream,
                   tickVars, wire>>

\* the next byte of the stream arrives as another byte value
ArriveCorrupt ==
    /\ Len(src) > 0
    /\ Len(inWaiting) < MaxBurst
    /\ stream.kind = "none"
    /\ \E b \in ByteSamples \ {Head(src)} :
          /\ inWaiting' = Append(inWaiting, b)
          /\ stream' = [stream EXCEPT !.kind = "corrupt", !.at = SrcPos, !.b = b]
    /\ src' = Tail(src)
    /\ UNCHANGED <<ctlVars, sysVars, decVars, tabVars, moveVars, devVars, obsVars, args, nSent,
                   tickVars, wire>>

\* the next byte of the stream is lost
ArriveDrop ==
    /\ Len(src) > 0
    /\ stream.kind = "none"
    /\ stream' = [stream EXCEPT !.kind = "drop", !.at = SrcPos]
    /\ src' = Tail(src)
    /\ UNCHANGED <<ctlVars, sysVars, decVars, tabVars, moveVars, devVars, obsVars, args, nSent,
                   tickVars, wire, inWaiting>>

NextStream == Arrive \/ ArriveCorrupt \/ ArriveDrop \/ ReadByte

SpecStream == InitStream /\ [][NextStream]_vars

----------------------------------------------------------------------------
(* Move run: after the port is opened (sendDAC(0x7FFF, c, 1) for the four  *)
(* DACs, received by the DIM) and initDraw, moveToTarget is called tick    *)
(* after tick with targets that may change between ticks; the DIM takes    *)
(* the frames off the wire one at a time.                                  *)

MaxTicks == 2       \* move ticks in a run
MaxLag == 1         \* frames that may still be on the wire when a tick starts

\* targets at distance 0, below, at, just above and far above stepSize from
\* the start value, in both directions
TargetSamples == {0, Mid - 256, Mid, Mid + 100, Mid + 255, Full}

StepTowardNoClamp(a, t) ==
    LET a1 == IF t > a THEN a + stepSize ELSE a
    IN  IF t < a1 THEN a1 - stepSize ELSE a1

StepTowardAway(a, t) ==
    LET a1 == IF t > a THEN a - Min(stepSize, t - a) ELSE a
    IN  IF t < a1 THEN a1 + Min(stepSize, a1 - t) ELSE a1

\* if Xt>Xa: Xa=Xa+min(stepSize,Xt-Xa); if Xt<Xa: Xa=Xa-min(stepSize,Xa-Xt)
StepToward(a, t) ==
    LET a1 == IF t > a THEN a + Min(stepSize, t - a) ELSE a
    IN  IF t < a1 THEN a1 - Min(stepSize, a1 - t) ELSE a1

MoveCallsAllMode1(moveX, moveY, xa, ya) ==
    (IF moveX THEN << <<xa, 0, 1>> >> ELSE <<>>)
        \o (IF moveY THEN << <<ya, 1, 1>> >> ELSE <<>>)

MoveCallsSingleMode2(moveX, moveY, xa, ya) ==
    IF moveX /\ moveY
    THEN << <<xa, 0, 0>>, <<ya, 1, 2>> >>
    ELSE (IF moveX THEN << <<xa, 0, 2>> >> ELSE <<>>)
            \o (IF moveY THEN << <<ya, 1, 2>> >> ELSE <<>>)

MoveCallsSyncOnly(moveX, moveY, xa, ya) ==
    IF moveX /\ moveY THEN << <<xa, 0, 0>>, <<ya, 1, 2>> >> ELSE <<>>

\* the sendDAC calls of a tick, in order
MoveCalls(moveX, moveY, xa, ya) ==
    IF moveX /\ moveY
    THEN << <<xa, 0, 0>>, <<ya, 1, 2>> >>
    ELSE (IF moveX THEN << <<xa, 0, 1>> >> ELSE <<>>)
            \o (IF moveY THEN << <<ya, 1, 1>> >> ELSE <<>>)

\* moveToTarget(Xt, Yt)
MoveToTarget(Xt, Yt) ==
    LET moveX == Xt # Xa
        moveY == Yt # Ya
        xa == StepToward(Xa, Xt)
        ya == StepToward(Ya, Yt)
        calls == MoveCalls(moveX, moveY, xa, ya)
    IN  /\ Xa' = xa
        /\ Ya' = ya
        /\ Sent(calls)
        /\ movesRemaining' = (moveX \/ moveY)
        /\ tick' = [Xa |-> Xa, Ya |-> Ya, Xt |-> Xt, Yt |-> Yt, Xa2 |-> xa, Ya2 |-> ya,
                    r |-> r, echo |-> echo, r2 |-> r', echo2 |-> echo',
                    flag |-> (moveX \/ moveY),
                    bytes |-> SubSeq(wire', Len(wire) + 1, Len(wire'))]
        /\ wireTag' = wireTag \o
              [i \in 1..Len(calls) |-> [last |-> (i = Len(calls)), snap |-> <<xa, ya>>]]

\* a tick of the event loop in a draw mode
Tick ==
    /\ nTicks < MaxTicks
    /\ Len(wireTag) <= MaxLag
    /\ \E Xt \in TargetSamples, Yt \in TargetSamples : MoveToTarget(Xt, Yt)
    /\ nTicks' = nTicks + 1
    /\ UNCHANGED <<ctlVars, sysVars, byteNumber, packetReady, inWaiting, devVars, obsVars, envVars>>

\* The DIM's DAC outputs after a packet: mode 0 loads the channel, mode 1
\* loads it and updates its output, mode 2 loads it and updates all outputs.
DevOutputs(out, reg, channel, mode) ==
    CASE mode = 1 -> [out EXCEPT ![channel] = reg[channel]]
      [] mode = 2 -> reg
      [] OTHER    -> out

\* The DIM receives the next packet on the wire.
DevRecv ==
    /\ Len(wire) >= 3
    /\ LET p == [i \in 0..2 |-> wire[i + 1]]
           d == DecodeD(p)
           channel == DecodeChannel(p)
           mode == DecodeMode(p)
           reg == IF channel \in 0..3 THEN [devReg EXCEPT ![channel] = d] ELSE devReg
       IN  /\ devReg' = reg
           /\ devOut' = IF channel \in 0..3
                        THEN DevOutputs(devOut, reg, channel, mode)
                        ELSE devOut
    /\ wire' = SubSeq(wire, 4, Len(wire))
    /\ wireTag' = Tail(wireTag)
    /\ devSnap' = IF Head(wireTag).last THEN Head(wireTag).snap ELSE devSnap
    /\ UNCHANGED <<ctlVars, sysVars, decVars, tabVars, moveVars, obsVars, envVars, tick, nTicks, inWaiting>>

\* the port just opened: sendDAC(0x7FFF, c, 1) for c = 0..3
OpenCalls == [c \in 1..4 |-> <<Mid, c - 1, 1>>]

InitMove ==
    LET s == SendAll([packet |-> [i \in 0..2 |-> 0], wire |-> <<>>,
                      r |-> [ch \in 0..(NumRows - 1) |-> Unknown],
                      echo |-> <<Unknown, Unknown, Unknown>>], OpenCalls)
    IN  /\ byteNumber = 0
        /\ packetReady = FALSE
        /\ packet = s.packet
        /\ r = s.r
        /\ echo = s.echo
        /\ inWaiting = <<>>
        /\ wire = <<>>
        /\ Xa = Mid
        /\ Ya = Mid
        /\ movesRemaining = FALSE
        /\ InitObservers
        /\ InitSystem
        /\ args = <<0, 0, 0>>
        /\ src = <<>>
        /\ stream = NoStream
        /\ devReg = [ch \in 0..3 |-> Mid]
        /\ devOut = [ch \in 0..3 |-> Mid]
        /\ devSnap = <<Mid, Mid>>

NextMove == Tick \/ DevRecv

SpecMove == InitMove /\ [][NextMove]_vars

----------------------------------------------------------------------------
(* Full-range run: the controller stands on the corner {0, 0} (the last    *)
(* tick sent both axes there and the DIM took the frames) and moveToTarget *)
(* is called tick after tick with the opposite corner {0xFFFF, 0xFFFF}.    *)

RangeTicks == 259   \* ticks of the full-range run

\* the calls that brought the table and the DIM to the corner {0, 0}
CornerCalls == OpenCalls \o << <<0, 0, 0>>, <<0, 1, 2>> >>

InitFullRange ==
    LET s == SendAll([packet |-> [i \in 0..2 |-> 0], wire |-> <<>>,
                      r |-> [ch \in 0..(NumRows - 1) |-> Unknown],
                      echo |-> <<Unknown, Unknown, Unknown>>], CornerCalls)
    IN  /\ byteNumber = 0
        /\ packetReady = FALSE
        /\ packet = s.packet
        /\ r = s.r
        /\ echo = s.echo
        /\ inWaiting = <<>>
        /\ wire = <<>>
        /\ Xa = 0
        /\ Ya = 0
        /\ movesRemaining = TRUE
        /\ InitObservers
        /\ InitSystem
        /\ args = <<0, 0, 0>>
        /\ src = <<>>
        /\ stream = NoStream
        /\ devReg = [ch \in 0..3 |-> IF ch < 2 THEN 0 ELSE Mid]
        /\ devOut = [ch \in 0..3 |-> IF ch < 2 THEN 0 ELSE Mid]
        /\ devSnap = <<0, 0>>

\* a tick of the event loop driving toward the corner {0xFFFF, 0xFFFF}
TickFull ==
    /\ nTicks < RangeTicks
    /\ Len(wireTag) <= MaxLag
    /\ MoveToTarget(Full, Full)
    /\ nTicks' = nTicks + 1
    /\ UNCHANGED <<ctlVars, sysVars, byteNumber, packetReady, inWaiting, devVars, obsVars, envVars>>

NextFullRange == TickFull \/ DevRecv

SpecFullRange == InitFullRange /\ [][NextFullRange]_vars

----------------------------------------------------------------------------
(* Sine run (FSM Sine.py): the X sine thread, the Y sine thread and the    *)
(* main loop call sendDAC with no lock between them.  Each call builds the *)
(* frame in a packet of its own and hands it to fsmPort.write; the port    *)
(* is shared and unsynchronised, so a write may put its bytes on the line  *)
(* in one piece or in several, and the pieces of concurrent writes may     *)
(* come in any order.                                                      *)

MaxSineSends == 1   \* sendDAC calls per writer thread in a sine run

\* max(0, min(0xFFFF, sine_value)) at the trough, the offset and the crest
SineSamples == {0, Mid, Full}

\* sendDAC(sine_value_x, 0, 1), sendDAC(sine_value_y, 1, 1), sendDAC(valueCoarse, 0, 1)
SineChannel(t) == IF t = "Y" THEN 1 ELSE 0

\* the start of the script: the port is opened and sendDAC(0x7FFF, 0, 1) is
\* sent, or no port is found and fsmPort stays None
InitSine ==
    /\ byteNumber = 0
    /\ packetReady = FALSE
    /\ packet = [i \in 0..2 |-> 0]
    /\ r = [ch \in 0..(NumRows - 1) |-> Unknown]
    /\ echo = <<Unknown, Unknown, Unknown>>
    /\ inWaiting = <<>>
    /\ Xa = 0
    /\ Ya = 0
    /\ movesRemaining = FALSE
    /\ InitObservers
    /\ InitControl
    /\ script = "FSM Sine"
    /\ fsmPort \in {"open", "none"}
    /\ raised = "none"
    /\ thr = NoThreads
    /\ wire = IF fsmPort = "open" THEN Frame(Mid, 0, 1) ELSE <<>>
    /\ wireOwner = [i \in 1..Len(wire) |-> "main"]
    /\ args = <<0, 0, 0>>
    /\ src = <<>>
    /\ stream = NoStream
    /\ devReg = [ch \in 0..3 |-> Unknown]
    /\ devOut = [ch \in 0..3 |-> Unknown]
    /\ devSnap = <<0, 0>>

\* thread t enters sendDAC: nothing happens without a port, else the frame
\* is built in the call's own packet
SineCall(t) ==
    /\ thr[t].pc = "idle"
    /\ thr[t].n < MaxSineSends
    /\ \E v \in SineSamples :
          thr' = IF fsmPort = "open"
                 THEN [thr EXCEPT ![t] = [pc |-> "write", pos |-> 0, n |-> @.n,
                                          buf |-> Frame(v, SineChannel(t), 1)]]
                 ELSE [thr EXCEPT ![t].n = @ + 1]
    /\ UNCHANGED <<ctlVars, decVars, tabVars, moveVars, devVars, obsVars, envVars, tickVars,
                   script, fsmPort, raised, wireOwner, inWaiting, wire>>

\* fsmPort.write(packet) of thread t puts its next byte on the line
SineWrite(t) ==
    /\ thr[t].pc = "write"
    /\ wire' = Append(wire, thr[t].buf[thr[t].pos + 1])
    /\ wireOwner' = Append(wireOwner, t)
    /\ thr' = IF thr[t].pos = 2
              THEN [thr EXCEPT ![t].pc = "idle", ![t].pos = 0, ![t].n = @ + 1]
              ELSE [thr EXCEPT ![t].pos = @ + 1]
    /\ UNCHANGED <<ctlVars, decVars, tabVars, moveVars, devVars, obsVars, envVars, tickVars,
                   script, fsmPort, raised, inWaiting>>

NextSine == \E t \in Threads : SineCall(t) \/ SineWrite(t)

SpecSine == InitSine /\ [][NextSine]_vars

----------------------------------------------------------------------------
(* Script run: one of the three table GUIs (DIM GUI.py, FSM Slider.py,     *)
(* FSM_test_interface.py) from the moment it tries its port.  The user     *)
(* moves a slider or presses a command button, the DIM sends frames, and   *)
(* readByte is called.  The scripts differ in the rows of r, in whether    *)
(* sendDAC tests fsmPort, and in how many bytes one readByte call takes.   *)
(* An exception is caught nowhere: it leaves the event loop and the        *)
(* process ends.                                                           *)

MaxSends == 2       \* slider and button events in a script run
MaxInFrames == 2    \* frames the DIM sends in a script run

Scripts == {"DIM GUI", "FSM Slider", "FSM_test_interface"}

SliderRows == 4     \* rows of r in FSM Slider.py
TestRows == 10      \* rows of r in FSM_test_interface.py

Rows(sc) ==
    CASE sc = "FSM Slider" -> SliderRows
      [] sc = "FSM_test_interface" -> TestRows
      [] OTHER -> NumRows

\* sendDAC starts with "if fsmPort:"
GuardsPort(sc) == sc = "FSM Slider"

\* readByte loops "while fsmPort.inWaiting():" (the others test it once)
DrainsAll(sc) == sc = "DIM GUI"

\* What a script's sendDAC reads and writes, as a record.
ScriptOut == [packet |-> packet, wire |-> wire, r |-> r, echo |-> echo, raised |-> raised]

\* sendDAC(d, channel, mode) of script sc with the port in state port: the
\* assignments to the bytearray raise ValueError above 255, fsmPort.write
\* raises AttributeError on None, updateR raises IndexError off the table
SendDACIn(sc, port, s, d, channel, mode) ==
    LET b0a == BitAnd(Shr(d, 14), 3)
        b0b == BitOr(b0a, Shl(channel, 4))
        b0c == Byte0(d, channel, mode)
        pk(b) == [i \in 0..2 |-> IF i = 0 THEN b ELSE IF i = 1 THEN Byte1(d) ELSE Byte2(d)]
    IN  IF s.raised # "none" THEN s
        ELSE IF GuardsPort(sc) /\ port # "open" THEN s
        ELSE IF b0b > 255 THEN [s EXCEPT !.packet = pk(b0a), !.raised = "ValueError"]
        ELSE IF b0c > 255 THEN [s EXCEPT !.packet = pk(b0b), !.raised = "ValueError"]
        ELSE IF port # "open"
             THEN [s EXCEPT !.packet = pk(b0c), !.raised = "AttributeError"]
        ELSE IF channel \notin DOMAIN s.r
             THEN [s EXCEPT !.packet = pk(b0c),
                            !.wire = @ \o <<b0c, Byte1(d), Byte2(d)>>,
                            !.raised = "IndexError"]
        ELSE [packet |-> pk(b0c),
              wire   |-> s.wire \o <<b0c, Byte1(d), Byte2(d)>>,
              r      |-> UpdateR(s.r, d, channel),
              echo   |-> <<d, channel, mode>>,
              raised |-> "none"]

RECURSIVE SendAllIn(_, _, _, _)
SendAllIn(sc, port, s, calls) ==
    IF calls = <<>> THEN s
    ELSE SendAllIn(sc, port,
                   SendDACIn(sc, port, s, Head(calls)[1], Head(calls)[2], Head(calls)[3]),
                   Tail(calls))

SentIn(port, calls) ==
    LET s == SendAllIn(script, port, ScriptOut, calls)
    IN  /\ packet' = s.packet
        /\ wire' = s.wire
        /\ r' = s.r
        /\ echo' = s.echo
        /\ raised' = s.raised

\* the frames the DIM reports with: an ADC reading on channel 5, one on
\* channel 7, and a DAC value on channel 0
InSamples == << <<49280, 5, 2>>, <<960, 7, 0>>, <<Mid, 0, 1>> >>

InFrames(off) == [i \in 1..MaxInFrames |-> InSamples[((i - 1 + off) % 3) + 1]]

InitScript ==
    /\ script \in Scripts
    /\ fsmPort = "unset"
    /\ raised = "none"
    /\ thr = NoThreads
    /\ wireOwner = <<>>
    /\ byteNumber = 0
    /\ packetReady = FALSE
    /\ packet = [i \in 0..2 |-> 0]
    /\ r = [ch \in 0..(Rows(script) - 1) |-> Unknown]
    /\ echo = <<Unknown, Unknown, Unknown>>
    /\ inWaiting = <<>>
    /\ wire = <<>>
    /\ Xa = 0
    /\ Ya = 0
    /\ movesRemaining = FALSE
    /\ InitObservers
    /\ InitControl
    /\ args = <<0, 0, 0>>
    /\ \E off \in 0..2 :
          /\ stream = [frames |-> InFrames(off), kind |-> "none", at |-> 0, b |-> Unknown]
          /\ src = Flatten(InFrames(off))
    /\ devReg = [ch \in 0..3 |-> Unknown]
    /\ devOut = [ch \in 0..3 |-> Unknown]
    /\ devSnap = <<0, 0>>

\* sendDAC(0x7FFF, c, 1) for the four DACs in DIM GUI.py, for X and Y in the others
StartCalls(sc) == IF sc = "DIM GUI" THEN OpenCalls ELSE SubSeq(OpenCalls, 1, 2)

\* a port is found: it is opened and the start values are sent
OpenPort ==
    /\ fsmPort = "unset"
    /\ fsmPort' = "open"
    /\ SentIn("open", StartCalls(script))
    /\ nSent' = nSent + Len(StartCalls(script))
    /\ UNCHANGED <<ctlVars, byteNumber, packetReady, inWaiting, moveVars, devVars, obsVars,
                   args, src, stream, tickVars, script, thr, wireOwner>>

\* portList is empty: a popup, and fsmPort = None
OpenFail ==
    /\ fsmPort = "unset"
    /\ script # "DIM GUI"
    /\ fsmPort' = "none"
    /\ UNCHANGED <<ctlVars, decVars, tabVars, moveVars, devVars, obsVars, envVars, tickVars,
                   script, raised, thr, wireOwner, inWaiting, wire>>

\* a slider position
SliderSamples == {40000}

\* the sendDAC call of an event: a slider moved with DACn = 3 selected, the
\* EEPROM button, and in DIM GUI.py the init button
EventCalls(sc) ==
    {<<v, 3, 1>> : v \in SliderSamples}
        \cup {<<0, 7, 1>>}
        \cup (IF sc = "DIM GUI" THEN {<<0, 7, 0>>} ELSE {})

EventSend ==
    /\ raised = "none"
    /\ fsmPort # "unset"
    /\ nSent < Len(StartCalls(script)) + MaxSends
    /\ \E c \in EventCalls(script) : SentIn(fsmPort, <<c>>)
    /\ nSent' = nSent + 1
    /\ UNCHANGED <<ctlVars, byteNumber, packetReady, inWaiting, moveVars, devVars, obsVars,
                   args, src, stream, tickVars, script, fsmPort, thr, wireOwner>>

\* a byte of the DIM arrives at the open port
ArriveOpen ==
    /\ raised = "none"
    /\ fsmPort = "open"
    /\ Arrive

\* readByte() of FSM Slider.py and FSM_test_interface.py:
\* "if fsmPort and fsmPort.inWaiting():" takes one byte
ReadOne ==
    IF fsmPort = "open" /\ Len(inWaiting) > 0
    THEN LET s == ReadStep(DecState, Head(inWaiting))
             off == /\ Len(s.emitted) > Len(emitted)
                    /\ s.emitted[Len(s.emitted)][2] \notin DOMAIN r
         IN  /\ byteNumber' = s.byteNumber
             /\ packetReady' = s.packetReady
             /\ packet' = s.packet
             /\ r' = IF off THEN r ELSE s.r
             /\ raised' = IF off THEN "IndexError" ELSE "none"
             /\ emitted' = s.emitted
             /\ nRead' = s.nRead
             /\ last' = s.last
             /\ inWaiting' = Tail(inWaiting)
             /\ UNCHANGED <<ctlVars, echo, wire, moveVars, devVars, envVars, tickVars,
                            script, fsmPort, thr, wireOwner>>
    ELSE UNCHANGED vars

\* a call of the script's readByte
ReadByteCall ==
    /\ raised = "none"
    /\ fsmPort # "unset"
    /\ IF DrainsAll(script) THEN ReadByte ELSE ReadOne

NextScript == OpenPort \/ OpenFail \/ EventSend \/ ArriveOpen \/ ReadByteCall

SpecScript == InitScript /\ [][NextScript]_vars

----------------------------------------------------------------------------
(* Wide run: DIM GUI.py's sendDAC called once with arguments inside and    *)
(* beyond the widths of the frame's fields; the DIM feeds the frame back.  *)

WideValues == {0, Full, Full + 1, 70000, 4 * 65536 + 49280}
WideChannels == {0, 7, 8, 9, 15, 16}
WideModes == {0, 3, 4, 5, 64}

InitWide ==
    /\ InitGlobals
    /\ InitObservers
    /\ InitSystem
    /\ args \in WideValues \X WideChannels \X WideModes
    /\ src = <<>>
    /\ stream = NoStream
    /\ devReg = [ch \in 0..3 |-> Unknown]
    /\ devOut = [ch \in 0..3 |-> Unknown]
    /\ devSnap = <<0, 0>>

SendWide ==
    /\ nSent = 0
    /\ SentIn(fsmPort, <<args>>)
    /\ nSent' = nSent + 1
    /\ UNCHANGED <<ctlVars, byteNumber, packetReady, inWaiting, moveVars, devVars, obsVars,
                   args, src, stream, tickVars, script, fsmPort, thr, wireOwner>>

NextWide == SendWide \/ Feedback \/ ReadByte

SpecWide == InitWide /\ [][NextWide]_vars

----------------------------------------------------------------------------
(* Loop run: the event loop of DIM GUI.py once both ports are selected and *)
(* the four start values are sent.  One step is one iteration of the loop: *)
(* window.read returns an event or times out, readByte drains the FSM      *)
(* port, readQuadCell takes the quad-cell readings that arrived, the       *)
(* event's handler runs, a pending slider value is sent in direct mode,    *)
(* and the selected draw mode makes its move.                              *)

MaxLoops == 2       \* iterations of the event loop in a loop run

PFACTOR == 500

\* window.read: <<event, argument>>; the sliders at a low coarse position and
\* at both ends of the fine range, table row 1 selected, the buttons
LoopEvents ==
    {<<"timeout", 0>>, <<"r", 1>>, <<"coarse", 100>>, <<"fine", -300>>, <<"fine", 300>>,
     <<"direct", 0>>, <<"square", 1>>, <<"bow", 2>>, <<"quad", 3>>,
     <<"init", 0>>, <<"EEPROM", 0>>}

\* what readQuadCell finds: nothing, or all of A0..A3 with the spot fully on
\* one side
QuadReadings ==
    { [ch \in {} |-> 0], [ch \in 8..11 |-> IF ch < 10 THEN 1023 ELSE 0] }

\* readQuadCell: updateR(int(msg[3:]), 8..11, 0) per message
ReadQuadCell(tab, q) == [ch \in DOMAIN tab |-> IF ch \in DOMAIN q THEN q[ch] ELSE tab[ch]]

\* the event handlers that only assign globals
GuiEvent(g, ev, tab) ==
    CASE ev[1] = "r" ->
            [g EXCEPT !.DACn = ev[2], !.valueCoarse = tab[ev[2]], !.valueFine = 0]
      [] ev[1] = "coarse" ->
            [g EXCEPT !.valueCoarse = ev[2], !.value = ev[2], !.updateTarget = TRUE]
      [] ev[1] = "fine" ->
            LET vf == ev[2]
                vc1 == IF g.valueCoarse + vf > Full THEN Full - vf ELSE g.valueCoarse
                vc2 == IF vc1 + vf < 0 THEN 0 + vf ELSE vc1
            IN  [g EXCEPT !.valueFine = vf, !.valueCoarse = vc2, !.value = vc2 + vf,
                          !.updateTarget = TRUE]
      [] ev[1] \in {"direct", "square", "bow"} -> [g EXCEPT !.drawOption = ev[2]]
      [] ev[1] = "quad" -> [g EXCEPT !.drawOption = ev[2], !.xpos = Mid, !.ypos = Mid]
      [] OTHER -> g

\* initDraw is called by the four mode buttons
CallsInitDraw(ev) == ev[1] \in {"direct", "square", "bow", "quad"}

\* the ownership claimed for Xa, Ya: initDraw leaves them alone
InitDrawKeeps(a) == a

\* initDraw(option): Xa = 0x7FFF, Ya = 0x7FFF
InitDraw(a) == Mid

\* the sendDAC calls of the init and EEPROM buttons
CommandCalls(ev) ==
    CASE ev[1] = "init" -> << <<0, 7, 0>> >>
      [] ev[1] = "EEPROM" -> << <<0, 7, 1>> >>
      [] OTHER -> <<>>

\* the two orders exchanged
CornerSwapped(option, st) ==
    IF option = 2
    THEN << <<0, 0>>, <<Full, 0>>, <<Full, Full>>, <<0, Full>> >>[st + 1]
    ELSE << <<0, 0>>, <<0, Full>>, <<Full, 0>>, <<Full, Full>> >>[st + 1]

\* the target of draw step st in square (1) and bow-tie (2) mode
Corner(option, st) ==
    IF option = 1
    THEN << <<0, 0>>, <<Full, 0>>, <<Full, Full>>, <<0, Full>> >>[st + 1]
    ELSE << <<0, 0>>, <<0, Full>>, <<Full, 0>>, <<Full, Full>> >>[st + 1]

\* int(x) of a quotient: truncation toward zero
TruncDiv(a, b) == IF a >= 0 THEN a \div b ELSE -((-a) \div b)

Clamp16(v) == IF v > Full THEN Full ELSE IF v < 0 THEN 0 ELSE v

\* one iteration of the event loop with event ev and quad-cell readings q
LoopIter(ev, q) ==
    \E dec \in {Drain(DecState, inWaiting)} :
    \E g1 \in {[GuiEvent(gui, ev, ReadQuadCell(dec.r, q)) EXCEPT !.event = ev[1]]} :
    \E xa1 \in {IF CallsInitDraw(ev) THEN InitDraw(Xa) ELSE Xa} :
    \E ya1 \in {IF CallsInitDraw(ev) THEN InitDraw(Ya) ELSE Ya} :
    \E direct \in {g1.updateTarget /\ g1.drawOption = 0} :
    \E o2 \in {SendAllIn(script, fsmPort,
                         [packet |-> dec.packet, wire |-> wire,
                          r |-> ReadQuadCell(dec.r, q), echo |-> echo, raised |-> "none"],
                         CommandCalls(ev) \o
                           (IF direct THEN << <<g1.value, g1.DACn, 1>> >> ELSE <<>>))} :
    \E draws \in {g1.drawOption \in {1, 2}} :
    \E tgt \in {Corner(g1.drawOption, g1.drawStep)} :
    \E moveX \in {draws /\ tgt[1] # xa1}, moveY \in {draws /\ tgt[2] # ya1} :
    \E xa2 \in {IF draws THEN StepToward(xa1, tgt[1]) ELSE xa1} :
    \E ya2 \in {IF draws THEN StepToward(ya1, tgt[2]) ELSE ya1} :
    \E o3 \in {SendAllIn(script, fsmPort, o2, MoveCalls(moveX, moveY, xa2, ya2))} :
    \E flag \in {IF draws THEN moveX \/ moveY ELSE movesRemaining} :
    \E steers \in {g1.drawOption = 3} :
    \E blind \in {steers /\ \E ch \in 8..11 : o3.r[ch] = Unknown} :
    \E sum \in {IF blind THEN 0 ELSE o3.r[8] + o3.r[9] + o3.r[10] + o3.r[11]} :
    \E acts \in {steers /\ ~blind /\ sum # 0} :
    \E xpos \in {IF acts
                 THEN Clamp16(g1.xpos - TruncDiv((o3.r[8] + o3.r[9] - o3.r[10] - o3.r[11])
                                                 * PFACTOR, sum))
                 ELSE g1.xpos} :
    \E ypos \in {IF acts
                 THEN Clamp16(g1.ypos - TruncDiv((o3.r[8] + o3.r[10] - o3.r[9] - o3.r[11])
                                                 * PFACTOR, sum))
                 ELSE g1.ypos} :
    \E o4 \in {IF acts
               THEN SendAllIn(script, fsmPort,
                              [o3 EXCEPT !.r = [ch \in DOMAIN o3.r |->
                                                  IF ch = 12 THEN xpos
                                                  ELSE IF ch = 13 THEN ypos ELSE o3.r[ch]]],
                              << <<xpos, 0, 0>>, <<ypos, 1, 2>> >>)
               ELSE o3} :
        /\ byteNumber' = dec.byteNumber
        /\ packetReady' = dec.packetReady
        /\ emitted' = dec.emitted
        /\ nRead' = dec.nRead
        /\ last' = dec.last
        /\ inWaiting' = <<>>
        /\ packet' = o4.packet
        /\ wire' = o4.wire
        /\ r' = o4.r
        /\ echo' = o4.echo
        /\ raised' = IF blind THEN "TypeError" ELSE o4.raised
        /\ gui' = [g1 EXCEPT !.updateTarget = IF direct THEN FALSE ELSE @,
                             !.drawStep = IF draws /\ ~flag THEN (@ + 1) % 4 ELSE @,
                             !.xpos = xpos, !.ypos = ypos]
        /\ Xa' = xa2
        /\ Ya' = ya2
        /\ movesRemaining' = flag

Loop ==
    /\ raised = "none"
    /\ nTicks < MaxLoops
    /\ \E ev \in LoopEvents, q \in QuadReadings : LoopIter(ev, q)
    /\ nSent' = nSent + (Len(wire') - Len(wire)) \div 3
    /\ nTicks' = nTicks + 1
    /\ UNCHANGED <<devVars, args, src, stream, tick, wireTag, script, fsmPort,
                   thr, wireOwner, running, devEeprom, devLast, feed, sinceStop>>

\* the DIM's report of its P2 reading
LoopFrames == << <<49280, 5, 2>> >>

\* both ports selected, the four start values sent
InitLoop ==
    LET s == SendAll([packet |-> [i \in 0..2 |-> 0], wire |-> <<>>,
                      r |-> [ch \in 0..(NumRows - 1) |-> Unknown],
                      echo |-> <<Unknown, Unknown, Unknown>>], OpenCalls)
    IN  /\ byteNumber = 0
        /\ packetReady = FALSE
        /\ packet = s.packet
        /\ r = s.r
        /\ echo = s.echo
        /\ inWaiting = <<>>
        /\ wire = s.wire
        /\ Xa = 0
        /\ Ya = 0
        /\ movesRemaining = FALSE
        /\ InitObservers
        /\ InitSystem
        /\ args = <<0, 0, 0>>
        /\ stream = [frames |-> LoopFrames, kind |-> "none", at |-> 0, b |-> Unknown]
        /\ src = Flatten(LoopFrames)
        /\ devReg = [ch \in 0..3 |-> Unknown]
        /\ devOut = [ch \in 0..3 |-> Unknown]
        /\ devSnap = <<0, 0>>

NextLoop == Loop \/ ArriveOpen

SpecLoop == InitLoop /\ [][NextLoop]_vars

----------------------------------------------------------------------------
(* Sine control run (FSM Sine.py): the Start and Stop buttons of the two   *)
(* axes and the sine threads they control.  A thread is at its loop test   *)
(* ("test"), inside the loop body before sendDAC ("call"), inside          *)
(* fsmPort.write ("write"), or has returned ("dead"); "idle" means no      *)
(* thread was started for the axis.  time.sleep is part of the step back   *)
(* to the loop test.  Start is pressed only while no earlier thread of the *)
(* axis is alive.                                                          *)

MaxCtlFrames == 2   \* loop iterations of the two sine threads together in a sine control run

Axes == {"X", "Y"}

\* sine_value at t = 0: the offset
CtlSamples == {Mid}

\* the loop keeps running whatever the flag says
LoopTestMutant(flag) == TRUE

\* while running_x: / while running_y:
LoopTest(flag) == flag

InitSineCtl ==
    /\ InitSine
    /\ fsmPort = "open"

\* start_sine_x, start_sine_y
StartSine(t) ==
    /\ ~running[t]
    /\ thr[t].pc \in {"idle", "dead"}
    /\ running' = [running EXCEPT ![t] = TRUE]
    /\ sinceStop' = [sinceStop EXCEPT ![t] = 0]
    /\ thr' = [thr EXCEPT ![t].pc = "test"]
    /\ UNCHANGED <<gui, devEeprom, devLast, feed, decVars, tabVars, moveVars, devVars, obsVars, envVars,
                   tickVars, script, fsmPort, raised, wireOwner, inWaiting, wire>>

\* stop_sine_x, stop_sine_y
StopSine(t) ==
    /\ running[t]
    /\ running' = [running EXCEPT ![t] = FALSE]
    /\ UNCHANGED <<gui, devEeprom, devLast, feed, sinceStop, decVars, tabVars, moveVars, devVars, obsVars,
                   envVars, tickVars, sysVars, inWaiting, wire>>

\* the loop iterations thread t has entered
Entered(t) == thr[t].n + (IF thr[t].pc \in {"call", "write"} THEN 1 ELSE 0)

\* the loop test of thread t
SineTest(t) ==
    /\ thr[t].pc = "test"
    /\ IF LoopTest(running[t])
       THEN /\ Entered("X") + Entered("Y") < MaxCtlFrames
            /\ thr' = [thr EXCEPT ![t].pc = "call"]
       ELSE thr' = [thr EXCEPT ![t].pc = "dead"]
    /\ UNCHANGED <<ctlVars, decVars, tabVars, moveVars, devVars, obsVars, envVars, tickVars,
                   script, fsmPort, raised, wireOwner, inWaiting, wire>>

\* thread t computes its sine value and enters sendDAC
SineSend(t) ==
    /\ thr[t].pc = "call"
    /\ \E v \in CtlSamples :
          thr' = [thr EXCEPT ![t].pc = "write", ![t].pos = 0,
                             ![t].buf = Frame(v, SineChannel(t), 1)]
    /\ UNCHANGED <<ctlVars, decVars, tabVars, moveVars, devVars, obsVars, envVars, tickVars,
                   script, fsmPort, raised, wireOwner, inWaiting, wire>>

\* fsmPort.write(packet) of thread t puts its next byte on the line; after
\* the last byte sendDAC returns, the thread sleeps and comes back to its
\* loop test
SineCtlWrite(t) ==
    /\ thr[t].pc = "write"
    /\ wire' = Append(wire, thr[t].buf[thr[t].pos + 1])
    /\ wireOwner' = Append(wireOwner, t)
    /\ sinceStop' = IF running[t] THEN sinceStop ELSE [sinceStop EXCEPT ![t] = @ + 1]
    /\ thr' = IF thr[t].pos = 2
              THEN [thr EXCEPT ![t].pc = "test", ![t].pos = 0, ![t].n = @ + 1]
              ELSE [thr EXCEPT ![t].pos = @ + 1]
    /\ UNCHANGED <<gui, running, devEeprom, devLast, feed, decVars, tabVars, moveVars, devVars, obsVars,
                   envVars, tickVars, script, fsmPort, raised, inWaiting>>

SineThread(t) == SineTest(t) \/ SineSend(t) \/ SineCtlWrite(t)

NextSineCtl == \E t \in Axes : StartSine(t) \/ StopSine(t) \/ SineThread(t)

\* the scheduler lets every live thread run
SpecSineCtl ==
    InitSineCtl /\ [][NextSineCtl]_vars /\ \A t \in Axes : WF_vars(SineThread(t))

----------------------------------------------------------------------------
(* Save run: DIM GUI.py's sends and the DIM taking them off the line.  The *)
(* DIM's handling of the channel-7 commands is the one the header comment  *)
(* of DIM GUI.py describes: mode 1 saves the last setpoints of the four    *)
(* DACs to EEPROM, mode 0 sets the DACs to their EEPROM values.  What the  *)
(* DIM reports back after Initialise is not part of this run.              *)

\* a Save that stores zeros
DevSaveMutant(reg) == [ch \in DOMAIN reg |-> 0]

\* "Save the last setpoints of all 4 DACs to EEPROM"
DevSave(reg) == reg

\* the DIM takes the next frame off the line
DevTake ==
    /\ fsmPort = "open"
    /\ raised = "none"
    /\ Len(wire) >= 3
    /\ \E p \in {[i \in 0..2 |-> wire[i + 1]]} :
       \E d \in {DecodeD(p)}, channel \in {DecodeChannel(p)}, mode \in {DecodeMode(p)} :
       \E reg \in {IF channel \in 0..3 THEN [devReg EXCEPT ![channel] = d] ELSE devReg} :
           /\ devLast' = <<channel, mode>>
           /\ CASE channel \in 0..3 ->
                     /\ devReg' = reg
                     /\ devOut' = DevOutputs(devOut, reg, channel, mode)
                     /\ devEeprom' = devEeprom
                [] channel = 7 /\ mode = 1 ->
                     /\ devEeprom' = DevSave(devReg)
                     /\ UNCHANGED <<devReg, devOut>>
                [] channel = 7 /\ mode = 0 ->
                     /\ devReg' = devEeprom
                     /\ devOut' = devEeprom
                     /\ devEeprom' = devEeprom
                [] OTHER -> UNCHANGED <<devReg, devOut, devEeprom>>
    /\ wire' = SubSeq(wire, 4, Len(wire))
    /\ UNCHANGED <<gui, running, feed, sinceStop, sysVars, decVars, tabVars, moveVars, devSnap,
                   obsVars, envVars, tickVars, inWaiting>>

\* DIM GUI.py before its port is selected; the DIM will report its P4
\* reading
InitSave ==
    /\ script = "DIM GUI"
    /\ fsmPort = "unset"
    /\ raised = "none"
    /\ thr = NoThreads
    /\ wireOwner = <<>>
    /\ byteNumber = 0
    /\ packetReady = FALSE
    /\ packet = [i \in 0..2 |-> 0]
    /\ r = [ch \in 0..(Rows(script) - 1) |-> Unknown]
    /\ echo = <<Unknown, Unknown, Unknown>>
    /\ inWaiting = <<>>
    /\ wire = <<>>
    /\ Xa = 0
    /\ Ya = 0
    /\ movesRemaining = FALSE
    /\ InitObservers
    /\ InitControl
    /\ args = <<0, 0, 0>>
    /\ stream = [frames |-> <<InSamples[2]>>, kind |-> "none", at |-> 0, b |-> Unknown]
    /\ src = Flatten(<<InSamples[2]>>)
    /\ devReg = [ch \in 0..3 |-> Unknown]
    /\ devOut = [ch \in 0..3 |-> Unknown]
    /\ devSnap = <<0, 0>>

NextSave == OpenPort \/ EventSend \/ DevTake \/ ArriveOpen \/ ReadByteCall

SpecSave == InitSave /\ [][NextSave]_vars

----------------------------------------------------------------------------
(* Byte run: the line delivers an arbitrary byte sequence to the open port *)
(* of DIM GUI.py or FSM Slider.py, whose readByte is called as the bytes   *)
(* come in.                                                                *)

MaxBytes == 6       \* bytes the line delivers in a byte run

\* byte values: bit 7 clear (as byte0: channel 3, mode 3, value bits 11),
\* bit 7 set with the data bits all clear and all set
ByteSet == {63, 128, 255}

InitBytes ==
    /\ script \in {"DIM GUI", "FSM Slider"}
    /\ fsmPort = "open"
    /\ raised = "none"
    /\ thr = NoThreads
    /\ wireOwner = <<>>
    /\ byteNumber = 0
    /\ packetReady = FALSE
    /\ packet = [i \in 0..2 |-> 0]
    /\ r = [ch \in 0..(Rows(script) - 1) |-> Unknown]
    /\ echo = <<Unknown, Unknown, Unknown>>
    /\ inWaiting = <<>>
    /\ wire = <<>>
    /\ Xa = 0
    /\ Ya = 0
    /\ movesRemaining = FALSE
    /\ InitObservers
    /\ gui = NoGui
    /\ running = [t \in {"X", "Y"} |-> FALSE]
    /\ devEeprom = [ch \in 0..3 |-> Unknown]
    /\ devLast = <<Unknown, Unknown>>
    /\ sinceStop = [t \in {"X", "Y"} |-> 0]
    /\ feed \in [1..MaxBytes -> ByteSet]
    /\ src = feed
    /\ args = <<0, 0, 0>>
    /\ stream = NoStream
    /\ devReg = [ch \in 0..3 |-> Unknown]
    /\ devOut = [ch \in 0..3 |-> Unknown]
    /\ devSnap = <<0, 0>>

NextBytes == ArriveOpen \/ ReadByteCall

SpecBytes == InitBytes /\ [][NextBytes]_vars

----------------------------------------------------------------------------
(* Recovery run: readByte of DIM GUI.py or FSM_test_interface.py is in any *)
(* of its states (byteNumber 0, 1 or 2, any buffer contents) when a stream *)
(* of well-formed frames starts arriving at a frame boundary.              *)

\* buffer contents: as created, and left over from earlier bytes (packet[0]
\* holds a byte with bit 7 clear, the others any byte)
StalePackets == { <<0, 0, 0>>, <<37, 200, 77>> }

InitRecover ==
    /\ script \in {"DIM GUI", "FSM_test_interface"}
    /\ fsmPort = "open"
    /\ raised = "none"
    /\ thr = NoThreads
    /\ wireOwner = <<>>
    /\ byteNumber \in 0..2
    /\ packetReady = FALSE
    /\ \E st \in StalePackets : packet = [i \in 0..2 |-> st[i + 1]]
    /\ r = [ch \in 0..(Rows(script) - 1) |-> Unknown]
    /\ echo = <<Unknown, Unknown, Unknown>>
    /\ inWaiting = <<>>
    /\ wire = <<>>
    /\ Xa = 0
    /\ Ya = 0
    /\ movesRemaining = FALSE
    /\ InitObservers
    /\ InitControl
    /\ args = <<0, 0, 0>>
    /\ \E fs \in [1..MaxFrames -> FrameSamples] :
          /\ stream = [frames |-> fs, kind |-> "none", at |-> 0, b |-> Unknown]
          /\ src = Flatten(fs)
    /\ devReg = [ch \in 0..3 |-> Unknown]
    /\ devOut = [ch \in 0..3 |-> Unknown]
    /\ devSnap = <<0, 0>>

NextRecover == ArriveOpen \/ ReadByteCall

SpecRecover == InitRecover /\ [][NextRecover]_vars

----------------------------------------------------------------------------
(* Restart run (FSM Sine.py): the Start and Stop buttons pressed at any    *)
(* time.  start_sine_x creates a new thread whenever running_x is False,   *)
(* whether or not an earlier thread of the axis has returned, so an axis   *)
(* has a first and a second thread here ("X" and "X2", "Y" and "Y2").      *)

SineInstances == {"X", "X2", "Y", "Y2"}

AxisOf(i) == IF i \in {"X", "X2"} THEN "X" ELSE "Y"

\* the loop iterations thread i has entered
EnteredBy(i) == thr[i].n + (IF thr[i].pc \in {"call", "write"} THEN 1 ELSE 0)

EnteredAll == EnteredBy("X") + EnteredBy("X2") + EnteredBy("Y") + EnteredBy("Y2")

InitRestart ==
    /\ script = "FSM Sine"
    /\ fsmPort = "open"
    /\ raised = "none"
    /\ thr = [i \in SineInstances |-> [pc |-> "idle", buf |-> <<0, 0, 0>>, pos |-> 0, n |-> 0]]
    /\ wire = Frame(Mid, 0, 1)
    /\ wireOwner = [i \in 1..Len(wire) |-> "main"]
    /\ byteNumber = 0
    /\ packetReady = FALSE
    /\ packet = [i \in 0..2 |-> 0]
    /\ r = [ch \in 0..(NumRows - 1) |-> Unknown]
    /\ echo = <<Unknown, Unknown, Unknown>>
    /\ inWaiting = <<>>
    /\ Xa = 0
    /\ Ya = 0
    /\ movesRemaining = FALSE
    /\ InitObservers
    /\ InitControl
    /\ args = <<0, 0, 0>>
    /\ src = <<>>
    /\ stream = NoStream
    /\ devReg = [ch \in 0..3 |-> Unknown]
    /\ devOut = [ch \in 0..3 |-> Unknown]
    /\ devSnap = <<0, 0>>

\* start_sine_x, start_sine_y: Thread(target=...).start() with thread i
RestartSine(i) ==
    /\ ~running[AxisOf(i)]
    /\ thr[i].pc \in {"idle", "dead"}
    /\ i \in Axes \/ thr[AxisOf(i)].pc \notin {"idle", "dead"}
    /\ running' = [running EXCEPT ![AxisOf(i)] = TRUE]
    /\ thr' = [thr EXCEPT ![i].pc = "test"]
    /\ UNCHANGED <<gui, devEeprom, devLast, feed, sinceStop, decVars, tabVars, moveVars,
                   devVars, obsVars, envVars, tickVars, script, fsmPort, raised, wireOwner,
                   inWaiting, wire>>

\* the loop test of thread i
RestartTest(i) ==
    /\ thr[i].pc = "test"
    /\ IF LoopTest(running[AxisOf(i)])
       THEN /\ EnteredAll < MaxCtlFrames
            /\ thr' = [thr EXCEPT ![i].pc = "call"]
       ELSE thr' = [thr EXCEPT ![i].pc = "dead"]
    /\ UNCHANGED <<ctlVars, decVars, tabVars, moveVars, devVars, obsVars, envVars, tickVars,
                   script, fsmPort, raised, wireOwner, inWaiting, wire>>

\* thread i computes its sine value and enters sendDAC
RestartSend(i) ==
    /\ thr[i].pc = "call"
    /\ \E v \in CtlSamples :
          thr' = [thr EXCEPT ![i].pc = "write", ![i].pos = 0,
                             ![i].buf = Frame(v, SineChannel(AxisOf(i)), 1)]
    /\ UNCHANGED <<ctlVars, decVars, tabVars, moveVars, devVars, obsVars, envVars, tickVars,
                   script, fsmPort, raised, wireOwner, inWaiting, wire>>

\* fsmPort.write(packet) of thread i puts its next byte on the line; after
\* the last byte the thread sleeps and comes back to its loop test
RestartWrite(i) ==
    /\ thr[i].pc = "write"
    /\ wire' = Append(wire, thr[i].buf[thr[i].pos + 1])
    /\ wireOwner' = Append(wireOwner, i)
    /\ thr' = IF thr[i].pos = 2
              THEN [thr EXCEPT ![i].pc = "test", ![i].pos = 0, ![i].n = @ + 1]
              ELSE [thr EXCEPT ![i].pos = @ + 1]
    /\ UNCHANGED <<ctlVars, decVars, tabVars, moveVars, devVars, obsVars, envVars, tickVars,
                   script, fsmPort, raised, inWaiting>>

NextRestart ==
    \/ \E i \in SineInstances : RestartSine(i) \/ RestartTest(i) \/ RestartSend(i) \/ RestartWrite(i)
    \/ \E t \in Axes : StopSine(t)

SpecRestart == InitRestart /\ [][NextRestart]_vars

----------------------------------------------------------------------------
(* Draw run: DIM GUI.py in square or bow-tie mode.  The mode button has    *)
(* just been pressed (initDraw put both axes at 0x7FFF and left drawStep   *)
(* where an earlier drawing stopped), the DIM holds the start values, and  *)
(* the event loop times out tick after tick while the DIM takes each       *)
(* tick's frames off the line before the next tick.                        *)

InitDrawRun ==
    /\ script = "DIM GUI"
    /\ fsmPort = "open"
    /\ raised = "none"
    /\ thr = NoThreads
    /\ wireOwner = <<>>
    /\ byteNumber = 0
    /\ packetReady = FALSE
    /\ packet = [i \in 0..2 |-> Frame(Mid, 3, 1)[i + 1]]
    /\ r = [ch \in 0..(NumRows - 1) |-> IF ch < 4 THEN Mid ELSE Unknown]
    /\ echo = <<Mid, 3, 1>>
    /\ inWaiting = <<>>
    /\ wire = <<>>
    /\ Xa = InitDraw(0)
    /\ Ya = InitDraw(0)
    /\ movesRemaining = FALSE
    /\ InitObservers
    /\ \E option \in {1, 2}, st \in 0..3 :
          gui = [NoGui EXCEPT !.drawOption = option, !.drawStep = st,
                              !.event = IF option = 1 THEN "square" ELSE "bow"]
    /\ running = [t \in {"X", "Y"} |-> FALSE]
    /\ devEeprom = [ch \in 0..3 |-> Unknown]
    /\ devLast = <<3, 1>>
    /\ feed = <<>>
    /\ sinceStop = [t \in {"X", "Y"} |-> 0]
    /\ args = <<0, 0, 0>>
    /\ src = <<>>
    /\ stream = NoStream
    /\ devReg = [ch \in 0..3 |-> Mid]
    /\ devOut = [ch \in 0..3 |-> Mid]
    /\ devSnap = <<0, 0>>

\* window.read times out: an iteration of the event loop with no event
DrawTick ==
    /\ raised = "none"
    /\ wire = <<>>
    /\ LoopIter(<<"timeout", 0>>, [ch \in {} |-> 0])
    /\ UNCHANGED <<devVars, envVars, tickVars, script, fsmPort, thr, wireOwner,
                   running, devEeprom, devLast, feed, sinceStop>>

NextDraw == DrawTick \/ DevTake

\* the loop keeps ticking and the DIM keeps taking frames
SpecDraw == InitDrawRun /\ [][NextDraw]_vars /\ WF_vars(DrawTick) /\ WF_vars(DevTake)

----------------------------------------------------------------------------
(* Properties of the codec run *)

\* C1. Round trip: the three bytes sendDAC(d, channel, mode) writes, fed to a
\* decoder that starts with byteNumber = 0, make readByte emit exactly one
\* packet, on the third byte, equal to (d, channel, mode).
C1_RoundTrip ==
    /\ nRead < 3 => emitted = <<>>
    /\ nRead = 3 => emitted = <<args>> /\ byteNumber = 0
    /\ nRead <= 3

C1_Witness ==
    /\ nRead = 3
    /\ Len(emitted) = 1
    /\ args[1] > 16384 /\ args[2] = 7 /\ args[3] = 3

\* the frame of (d, channel, mode) by the layout of the protocol header
C2_Layout(d, channel, mode) ==
    << channel * 16 + mode * 4 + (d \div 16384),
       128 + ((d \div 128) % 128),
       128 + (d % 128) >>

\* C2. Frame layout: sendDAC writes exactly three bytes,
\* byte0 = (channel<<4)|(mode<<2)|(value>>14) with bit 7 clear,
\* byte1 = 0x80|((value>>7)&0x7F) and byte2 = 0x80|(value&0x7F); byte0 is the
\* only byte of the frame with bit 7 clear.
C2_FrameLayout ==
    LET f == C2_Layout(args[1], args[2], args[3])
    IN  /\ Len(wire) + Len(inWaiting) + nRead = 3 * nSent
        /\ nSent = 1 =>
              /\ inWaiting \o wire = SubSeq(f, nRead + 1, 3)
              /\ (nRead = 0 /\ inWaiting = <<>>) =>
                    /\ wire[1] < 128 /\ wire[2] >= 128 /\ wire[3] >= 128
                    /\ packet = [i \in 0..2 |-> f[i + 1]]

C2_Witness ==
    /\ nSent = 1
    /\ Len(wire) = 3
    /\ args = <<65535, 7, 3>>

----------------------------------------------------------------------------
(* Properties of the stream run *)

StreamDone == src = <<>> /\ inWaiting = <<>>

\* the frame (from 1) and the byte of it (0, 1, 2) the line fault hit
FaultFrame == ((stream.at - 1) \div 3) + 1

FaultByte == (stream.at - 1) % 3

\* the first n frames of the stream were decoded, in order, as the first n packets
DecodedFirst(n) ==
    /\ Len(emitted) >= n
    /\ SubSeq(emitted, 1, n) = SubSeq(stream.frames, 1, n)

\* the last n frames of the stream were decoded, in order, as the last n packets
DecodedLast(n) ==
    /\ Len(emitted) >= n
    /\ SubSeq(emitted, Len(emitted) - n + 1, Len(emitted))
         = SubSeq(stream.frames, MaxFrames - n + 1, MaxFrames)

\* C3. Resync after corruption: when one byte of a stream of well-formed frames
\* is replaced by another value, at most one packet is dropped, and every
\* frame before and every frame after the corrupted one is decoded to exactly
\* its (value, channel, mode).
C3_ResyncAfterCorruption ==
    (StreamDone /\ stream.kind = "corrupt") =>
        /\ Len(emitted) \in {MaxFrames - 1, MaxFrames}
        /\ DecodedFirst(FaultFrame - 1)
        /\ DecodedLast(MaxFrames - FaultFrame)

C3_Witness ==
    /\ StreamDone
    /\ stream.kind = "corrupt"
    /\ FaultFrame = 1
    /\ Len(emitted) = MaxFrames - 1
    /\ DecodedLast(MaxFrames - 1)

\* C4 as stated: when one byte of the stream is lost, every frame after the
\* one that lost a byte is decoded correctly.
C4_AsStated ==
    (StreamDone /\ stream.kind = "drop") => DecodedLast(MaxFrames - FaultFrame)

\* C4, amended. When one byte of the stream is lost, readByte emits at most one
\* bad packet; every frame before the damaged one and every frame from the
\* second frame after it on is decoded correctly; the frame right after the
\* damaged one is decoded when the lost byte was a byte0, and is lost with it
\* when the lost byte was a byte1 or byte2 (its byte0 is stored as data).
C4_ResyncAfterLoss ==
    (StreamDone /\ stream.kind = "drop") =>
        LET after == IF FaultFrame < MaxFrames THEN MaxFrames - FaultFrame - 1 ELSE 0
        IN  /\ Len(emitted) = MaxFrames - 1
            /\ DecodedFirst(FaultFrame - 1)
            /\ DecodedLast(after)
            /\ FaultByte = 0 => DecodedLast(MaxFrames - FaultFrame)

C4_Witness ==
    /\ StreamDone
    /\ stream.kind = "drop"
    /\ FaultByte = 1
    /\ FaultFrame = 1
    /\ Len(emitted) = MaxFrames - 1
    /\ emitted[1] # stream.frames[1]
    /\ emitted[Len(emitted)] = stream.frames[MaxFrames]

\* C5. AwaitSync: a byte with bit 7 set received while byteNumber = 0 changes
\* nothing (decoder, channel table, no packet); a byte with bit 7 clear is
\* stored as byte0 and moves the decoder to byteNumber = 1 without a packet.
C5_AwaitSync ==
    (nRead > 0 /\ last.byteNumber = 0) =>
        /\ packetReady = FALSE
        /\ r = last.r
        /\ Len(emitted) = last.nEmitted
        /\ packet[1] = last.packet[1]
        /\ packet[2] = last.packet[2]
        /\ IF last.b >= 128
           THEN byteNumber = 0 /\ packet[0] = last.packet[0]
           ELSE byteNumber = 1 /\ packet[0] = last.b

C5_Witness ==
    /\ nRead > 3
    /\ last.byteNumber = 0
    /\ last.b >= 128
    /\ byteNumber = 0

----------------------------------------------------------------------------
(* Properties of the move run *)

Abs(x) == IF x < 0 THEN -x ELSE x

XOff == tick.Xa # tick.Xt

YOff == tick.Ya # tick.Yt

\* the packets written in the last tick, decoded from the bytes written
TickPackets ==
    [i \in 1..(Len(tick.bytes) \div 3) |->
        LET p == [j \in 0..2 |-> tick.bytes[3 * (i - 1) + j + 1]]
        IN  <<DecodeD(p), DecodeChannel(p), DecodeMode(p)>>]

TickModeCount(mode) ==
    Cardinality({i \in 1..Len(TickPackets) : TickPackets[i][3] = mode})

\* C6. Move atomicity: a tick that finds both X and Y off target writes exactly
\* two frames, (Xa, 0, mode 0) then (Ya, 1, mode 2): one mode-2 frame and no
\* mode-1 frame.
C6_MoveAtomicity ==
    (nTicks > 0 /\ XOff /\ YOff) =>
        /\ Len(tick.bytes) = 6
        /\ TickPackets = << <<tick.Xa2, 0, 0>>, <<tick.Ya2, 1, 2>> >>
        /\ TickModeCount(2) = 1
        /\ TickModeCount(1) = 0

C6_Witness ==
    /\ nTicks > 0 /\ XOff /\ YOff
    /\ Len(tick.bytes) = 6
    /\ Abs(tick.Xt - tick.Xa) > stepSize
    /\ Abs(tick.Yt - tick.Ya) > stepSize

\* C7. Synchronous latch: the DIM's X and Y outputs are at every moment the
\* (Xa, Ya) of one tick, the last one it has fully received; after the first
\* frame of a two-frame tick both outputs still show the previous tick, and
\* both change on the mode-2 frame.
C7_SynchronousLatch == <<devOut[0], devOut[1]>> = devSnap

\* the DIM holds the mode-0 frame of a tick and has not yet taken its mode-2 frame
C7_Witness ==
    /\ Len(wireTag) >= 1
    /\ Head(wireTag).last
    /\ devReg[0] # devOut[0]
    /\ devReg[0] = Head(wireTag).snap[1]
    /\ devOut[1] # Head(wireTag).snap[2]

\* C8. A tick that finds exactly one axis off target writes exactly one frame,
\* mode 1, to that axis's channel with its new value; a tick that finds both
\* axes on target writes nothing and leaves Xa, Ya, the channel table and the
\* last-packet echo unchanged.
C8_SingleAndIdle ==
    nTicks > 0 =>
        /\ (XOff /\ ~YOff) => TickPackets = << <<tick.Xa2, 0, 1>> >>
        /\ (YOff /\ ~XOff) => TickPackets = << <<tick.Ya2, 1, 1>> >>
        /\ (XOff # YOff) => Len(tick.bytes) = 3
        /\ (~XOff /\ ~YOff) =>
              /\ tick.bytes = <<>>
              /\ tick.Xa2 = tick.Xa /\ tick.Ya2 = tick.Ya
              /\ tick.r2 = tick.r /\ tick.echo2 = tick.echo

\* an idle tick, with the frame of the single-axis tick before it still on the wire
C8_Witness ==
    /\ nTicks = 2
    /\ ~XOff /\ ~YOff
    /\ tick.bytes = <<>>
    /\ Len(wire) = 3
    /\ DecodeMode([j \in 0..2 |-> wire[j + 1]]) = 1

\* current and target values at the ends and the middle of the range, each
\* with neighbours below, at and above stepSize away
SlewSamples == {0, 1, 254, 255, 256, Mid - 256, Mid - 255, Mid, Mid + 1, Mid + 255,
                Mid + 256, Full - 256, Full - 255, Full - 1, Full}

\* the slew rule for one axis: current a, target t, new current a2
SlewRule(a, t, a2) ==
    IF Abs(t - a) > stepSize THEN Abs(a2 - a) = stepSize ELSE a2 = t

\* C9. Slew limiting: after a tick, an axis whose target was more than
\* stepSize away has moved by exactly stepSize, and an axis whose target was
\* at most stepSize away is on the target; the same for the step of one axis
\* on current and target values over the whole range.
C9_SlewLimit ==
    /\ nTicks > 0 =>
          /\ SlewRule(tick.Xa, tick.Xt, tick.Xa2)
          /\ SlewRule(tick.Ya, tick.Yt, tick.Ya2)
    /\ \A a \in SlewSamples, t \in SlewSamples : SlewRule(a, t, StepToward(a, t))

C9_Witness ==
    /\ nTicks > 0
    /\ Abs(tick.Xt - tick.Xa) > stepSize
    /\ Abs(tick.Yt - tick.Ya) \in 1..stepSize
    /\ tick.Ya2 = tick.Yt
    /\ tick.Xa2 # tick.Xt

Between(lo, x, hi) == (lo <= x /\ x <= hi) \/ (hi <= x /\ x <= lo)

\* C10. No overshoot under changing targets: after every tick each axis's
\* current value lies between its previous value and the tick's target, stays
\* in 0..65535, and is no farther from the target than before.
C10_NoOvershoot ==
    /\ Xa \in 0..Full /\ Ya \in 0..Full
    /\ nTicks > 0 =>
          /\ Between(tick.Xa, tick.Xa2, tick.Xt)
          /\ Between(tick.Ya, tick.Ya2, tick.Yt)
          /\ Abs(tick.Xt - tick.Xa2) <= Abs(tick.Xt - tick.Xa)
          /\ Abs(tick.Yt - tick.Ya2) <= Abs(tick.Yt - tick.Ya)
          /\ Xa = tick.Xa2 /\ Ya = tick.Ya2

\* a second tick whose X target lies on the other side of the first tick's
C10_Witness ==
    /\ nTicks = 2
    /\ tick.Xa > Mid
    /\ tick.Xt < tick.Xa
    /\ tick.Xa2 < tick.Xa
    /\ tick.Ya < Mid
    /\ tick.Yt > tick.Ya

\* C11. Off-target flag: after any call of moveToTarget, movesRemaining is
\* true if and only if at least one axis is still off its target after the
\* step, i.e. Xa # Xt or Ya # Yt in the state the call leaves.
C11_FlagIsPostState ==
    nTicks > 0 =>
        /\ movesRemaining = tick.flag
        /\ movesRemaining <=> (Xa # tick.Xt \/ Ya # tick.Yt)

\* C12. Full-range scenario: starting at {0, 0} with target {0xFFFF, 0xFFFF}
\* and stepSize 0xFF, the controller needs exactly 257 ticks before both
\* axes report on target: movesRemaining is first false after tick 257, not
\* earlier and not later.
C12_FlagFalseAtTick257 ==
    /\ nTicks \in 1..256 => movesRemaining
    /\ nTicks = 257 => ~movesRemaining

\* C13. Wire serialization: with the X sine thread, the Y sine thread and
\* the main loop all calling sendDAC, the bytes on the wire are always a
\* concatenation of whole 3-byte frames: every aligned group of three bytes
\* (and the unfinished group at the end) comes from one sendDAC call, and a
\* byte has bit 7 clear exactly when it is the first of its group.
C13_WholeFrames ==
    \A i \in 1..Len(wire) :
        /\ wireOwner[i] = wireOwner[3 * ((i - 1) \div 3) + 1]
        /\ (wire[i] < 128) <=> (i % 3 = 1)

\* C14. Decode unaffected by concurrent send: in DIM GUI.py a sendDAC call
\* made while the decoder holds a partial frame does not change the packet
\* that is emitted when the frame completes: every packet readByte emits is
\* the frame the DIM sent.
C14_SendLeavesDecode ==
    script = "DIM GUI" =>
        \A i \in 1..Len(emitted) : emitted[i] = stream.frames[i]

\* C15. Drain semantics: a readByte call that consumes anything consumes
\* exactly the bytes that were waiting when it was called, all of them and
\* in order: it leaves the input buffer empty, the decoder where draining
\* those bytes puts it, and the packets completed on the way emitted.
C15_DrainsAvailable ==
    [][nRead' # nRead =>
          /\ inWaiting' = <<>>
          /\ nRead' = nRead + Len(inWaiting)
          /\ byteNumber' = Drain(DecState, inWaiting).byteNumber
          /\ emitted' = Drain(DecState, inWaiting).emitted]_vars

\* C16. Transport unavailable: while fsmPort is None every sendDAC and
\* readByte call is a no-op: nothing is raised, nothing is written, and the
\* table, the echo fields and the decoder (its position and its packet
\* buffer) stay as they were when the script started.
C16_NoPortNoOp ==
    fsmPort = "none" =>
        /\ raised = "none"
        /\ wire = <<>>
        /\ r = [ch \in DOMAIN r |-> Unknown]
        /\ echo = <<Unknown, Unknown, Unknown>>
        /\ byteNumber = 0
        /\ packetReady = FALSE
        /\ packet = [i \in 0..2 |-> 0]
        /\ emitted = <<>>

\* C17. Out-of-range inputs: sendDAC called with a value wider than 16
\* bits, a channel wider than 3 bits or a mode wider than 2 bits raises
\* nothing and writes the frame of (value mod 65536, channel mod 8,
\* mode mod 4): byte0 has bit 7 clear and no field spills into another.
C17_MasksInputs ==
    nSent = 1 =>
        /\ raised = "none"
        /\ Len(wire) = 3 =>
              wire = C2_Layout(args[1] % 65536, args[2] % 8, args[3] % 4)

\* the table after the packets ps, each a (d, channel, ...), one by one
RECURSIVE ApplyAll(_, _)
ApplyAll(tab, ps) ==
    IF ps = <<>> THEN tab
    ELSE ApplyAll([ch \in DOMAIN tab |-> IF ch = Head(ps)[2] THEN Head(ps)[1] ELSE tab[ch]],
                  Tail(ps))

\* the packets emitted by the step
NewPackets == SubSeq(emitted', Len(emitted) + 1, Len(emitted'))

NotCommand(pk) == pk[2] # 7

\* C18 as stated. Command channel on decode: a decoded packet of channel 7
\* writes no channel value (it leaves the table unchanged), a decoded packet
\* of a channel in 0..6 sets that channel's entry to the decoded value.
C18_AsStated ==
    [][(NewPackets # <<>> /\ raised' = "none")
          => r' = ApplyAll(r, SelectSeq(NewPackets, NotCommand))]_vars

\* C18. Decode writes every channel: a readByte step that emits packets and
\* raises nothing sets, for each packet in order, the table entry of the
\* packet's channel to the packet's value and leaves the other entries
\* alone, for channel 7 (row "Yerr / P4 ADC") as for channels 0..6.
C18_DecodeWritesEveryChannel ==
    [][(NewPackets # <<>> /\ raised' = "none") => r' = ApplyAll(r, NewPackets)]_vars

C18_Witness ==
    /\ script = "DIM GUI"
    /\ Len(emitted) > 0
    /\ emitted[Len(emitted)] = <<960, 7, 0>>
    /\ r[7] = 960
    /\ r[5] # 960

\* the (d, channel) of the frames in bytes, as the DIM reads them
RECURSIVE WireCalls(_)
WireCalls(bytes) ==
    IF Len(bytes) < 3 THEN <<>>
    ELSE << <<(bytes[1] % 4) * 16384 + (bytes[2] % 128) * 128 + (bytes[3] % 128),
              (bytes[1] \div 16) % 8>> >>
            \o WireCalls(SubSeq(bytes, 4, Len(bytes)))

\* C19. Channel table lifecycle: every entry is unknown while nothing has
\* been sent or decoded; a step that sends frames and raises nothing leaves
\* the table as the sent (value, channel) pairs applied in order, a step
\* that decodes packets and raises nothing leaves it as the packets applied
\* in order, so each entry holds its channel's most recent value and the
\* other entries are untouched; any other step leaves the table alone; and
\* the table never gains or loses an entry.
C19_TableLifecycle ==
    [][/\ (nSent = 0 /\ emitted = <<>>) => \A ch \in DOMAIN r : r[ch] = Unknown
       /\ DOMAIN r' = DOMAIN r
       /\ (nSent' # nSent /\ raised' = "none")
             => r' = ApplyAll(r, WireCalls(SubSeq(wire', Len(wire) + 1, Len(wire'))))
       /\ (NewPackets # <<>> /\ raised' = "none") => r' = ApplyAll(r, NewPackets)
       /\ (nSent' = nSent /\ NewPackets = <<>>) => r' = r]_vars

C19_Witness ==
    /\ script = "DIM GUI"
    /\ Len(emitted) = 2
    /\ emitted[1] = <<49280, 5, 2>>
    /\ emitted[2] = <<960, 7, 0>>
    /\ r[5] = 49280
    /\ r[7] = 0
    /\ r[3] = 40000
    /\ r[0] = Mid
    /\ r[4] = Unknown

\* C20. Eight-address coverage: in FSM Slider.py the table has a slot for
\* each of the 8 channel addresses, so decoding a packet for any channel in
\* 0..7 and sending to any channel in 0..7 (the Save command on channel 7
\* included) completes without raising: no input ends the process.
C20_NoFatalInput ==
    script = "FSM Slider" => raised = "none"

----------------------------------------------------------------------------
(* Properties of the loop run *)

\* an iteration of the event loop whose draw mode calls moveToTarget
MovesThisTick == nTicks' # nTicks /\ gui'.drawOption \in {1, 2}

\* an iteration of the event loop whose event handler calls initDraw
InitDrawThisTick == nTicks' # nTicks /\ CallsInitDraw(<<gui'.event, 0>>)

\* C21 as stated: Xa and Ya are changed only by moveToTarget; initDraw,
\* slider sends, command sends and decodes leave them alone: a step without
\* moveToTarget keeps both, a step with it moves them one step from their
\* old values toward the target.
C21_AsStated ==
    [][IF MovesThisTick
       THEN /\ Xa' = StepToward(Xa, Corner(gui'.drawOption, gui.drawStep)[1])
            /\ Ya' = StepToward(Ya, Corner(gui'.drawOption, gui.drawStep)[2])
       ELSE Xa' = Xa /\ Ya' = Ya]_vars

\* C21: Xa and Ya are changed only by moveToTarget and by initDraw, which
\* sets both to 0x7FFF when a draw-mode button is pressed; slider sends,
\* command sends and decodes do not write them.
C21_MoveAndInitDrawOnly ==
    [][LET xa == IF InitDrawThisTick THEN Mid ELSE Xa
           ya == IF InitDrawThisTick THEN Mid ELSE Ya
       IN  IF MovesThisTick
           THEN /\ Xa' = StepToward(xa, Corner(gui'.drawOption, gui.drawStep)[1])
                /\ Ya' = StepToward(ya, Corner(gui'.drawOption, gui.drawStep)[2])
           ELSE Xa' = xa /\ Ya' = ya]_vars

\* the square button was pressed: initDraw put both axes at 0x7FFF and
\* moveToTarget made one step from there toward the corner {0, 0}
C21_Witness ==
    /\ gui.event = "square"
    /\ nTicks = 1
    /\ Xa = Mid - stepSize
    /\ Ya = Mid - stepSize

\* C22: every value a setpoint source hands to sendDAC or moveToTarget lies
\* in 0..65535: the value last handed to sendDAC, the slider value waiting
\* to be sent, the quad-cell positions, the axis values and the corner
\* targets of the draw modes.
C22_Preclamped ==
    /\ echo[1] \in 0..Full
    /\ gui.updateTarget => gui.value \in 0..Full
    /\ gui.drawOption = 3 => gui.xpos \in 0..Full /\ gui.ypos \in 0..Full
    /\ Xa \in 0..Full /\ Ya \in 0..Full
    /\ \A option \in {1, 2}, st \in 0..3 :
          Corner(option, st)[1] \in 0..Full /\ Corner(option, st)[2] \in 0..Full

----------------------------------------------------------------------------
(* Properties of the sine control run *)

\* the bytes thread t put on the line, in order
BytesOf(t) ==
    LET idx == {i \in 1..Len(wire) : wireOwner[i] = t}
        f[i \in 0..Len(wire)] ==
            IF i = 0 THEN <<>>
            ELSE IF i \in idx THEN Append(f[i - 1], wire[i]) ELSE f[i - 1]
    IN  f[Len(wire)]

\* a byte sequence that is a concatenation of 3-byte frames
WholeFrames(bs) ==
    /\ Len(bs) % 3 = 0
    /\ \A i \in 1..Len(bs) : (bs[i] < 128) <=> (i % 3 = 1)

----------------------------------------------------------------------------
(* Properties of the command buttons *)

\* a step in which the init or the EEPROM button's sendDAC ran to its end
\* on an open port of DIM GUI.py or FSM_test_interface.py
CommandSent(mode) ==
    /\ script \in {"DIM GUI", "FSM_test_interface"}
    /\ fsmPort = "open"
    /\ nSent' = nSent + 1
    /\ echo' = <<0, 7, mode>>

\* C24: Initialize writes exactly one frame, on channel 7 with mode 0, and
\* Save writes exactly one frame, on channel 7 with mode 1; neither writes
\* a frame to a DAC channel 0..3 nor changes table entries 0..3.
C24_CommandFrames ==
    [][\A mode \in {0, 1} :
          CommandSent(mode) =>
            /\ wire' = wire \o <<112 + 4 * mode, 128, 128>>
            /\ LET p == [i \in 0..2 |-> wire'[Len(wire') - 2 + i]]
               IN  DecodeChannel(p) = 7 /\ DecodeMode(p) = mode /\ DecodeD(p) = 0
            /\ \A ch \in 0..3 : r'[ch] = r[ch]]_vars

\* DIM GUI.py sent Initialize and then Save after the four start values
C24_Witness ==
    /\ script = "DIM GUI"
    /\ fsmPort = "open"
    /\ echo = <<0, 7, 1>>
    /\ Len(wire) = 18
    /\ SubSeq(wire, 13, 18) = <<112, 128, 128, 116, 128, 128>>
    /\ \A ch \in 0..3 : r[ch] = Mid

----------------------------------------------------------------------------
(* Properties of the save run *)

----------------------------------------------------------------------------
(* Worked examples of the codec run *)

\* sendDAC(0x7FFF, 0, 1) has written its frame and nothing is read back yet
SentMid == args = <<Mid, 0, 1>> /\ nSent = 1 /\ Len(wire) = 3

\* C26 as stated: sendDAC(0x7FFF, 0, 1) writes the bytes [0x10, 0xFF, 0xFF].
C26_AsStated == SentMid => wire = <<16, 255, 255>>

\* C26: sendDAC(0x7FFF, 0, 1) writes the bytes [0x05, 0xFF, 0xFF]: channel 0
\* in bits 6..4, mode 1 in bits 3..2 and the value's bits 15..14 (01) in
\* bits 1..0 of byte0.
C26_EncodeExample == SentMid => wire = <<5, 255, 255>>

C26_Witness == SentMid /\ echo = <<Mid, 0, 1>> /\ wire[1] = 5

\* the decoder, started in AwaitSync, has consumed [0x10, 0xFF, 0xFF]
FedExample == nRead = 3 /\ packet = [i \in 0..2 |-> IF i = 0 THEN 16 ELSE 255]

\* C27 as stated: [0x10, 0xFF, 0xFF] fed to the decoder in AwaitSync emits
\* the packet {value 0x7FFF, channel 0, mode 1}.
C27_AsStated == FedExample => emitted = << <<Mid, 0, 1>> >>

\* C27: [0x10, 0xFF, 0xFF] fed to the decoder in AwaitSync emits the packet
\* {value 0x3FFF, channel 1, mode 0}.
C27_DecodeExample == FedExample => emitted = << <<16383, 1, 0>> >> /\ byteNumber = 0

C27_Witness == FedExample /\ Len(emitted) = 1 /\ r[1] = 16383

----------------------------------------------------------------------------
(* Properties of the byte run *)

\* the bytes readByte has consumed
Fed == SubSeq(feed, 1, nRead)

\* the framing of a byte sequence read from AwaitSync: bytes with bit 7 set
\* are skipped until a byte with bit 7 clear, which starts a frame with the
\* two bytes that follow it
RECURSIVE Framing(_)
Framing(bs) ==
    IF bs = <<>> THEN <<>>
    ELSE IF bs[1] >= 128 THEN Framing(Tail(bs))
    ELSE IF Len(bs) < 3 THEN <<>>
    ELSE <<SubSeq(bs, 1, 3)>> \o Framing(SubSeq(bs, 4, Len(bs)))

\* the bytes of an unfinished frame at the end of a byte sequence
RECURSIVE Pending(_)
Pending(bs) ==
    IF bs = <<>> THEN <<>>
    ELSE IF bs[1] >= 128 THEN Pending(Tail(bs))
    ELSE IF Len(bs) < 3 THEN bs
    ELSE Pending(SubSeq(bs, 4, Len(bs)))

\* C28: once byte0 is captured the next two bytes are taken as byte1 and
\* byte2 whatever their bit 7; a packet is emitted exactly on the third
\* byte and the decoder is back in AwaitSync; every emitted packet is built
\* from three consecutive consumed bytes of which the first has bit 7
\* clear, and two packets never share a byte.
C28_Framing ==
    LET fr == Framing(Fed)
        pe == Pending(Fed)
    IN  /\ Len(emitted) = Len(fr)
        /\ \A i \in 1..Len(fr) :
              LET p == [j \in 0..2 |-> fr[i][j + 1]]
              IN  emitted[i] = <<DecodeD(p), DecodeChannel(p), DecodeMode(p)>>
        /\ byteNumber = Len(pe)
        /\ \A j \in 1..Len(pe) : packet[j - 1] = pe[j]
        /\ (nRead > 0 /\ last.byteNumber = 2) =>
              /\ byteNumber = 0
              /\ Len(emitted) = last.nEmitted + 1
        /\ (nRead > 0 /\ last.byteNumber # 2) => Len(emitted) = last.nEmitted

\* six bytes made two packets; the second and third byte of the first
\* frame had bit 7 clear and were taken as data all the same
C28_Witness ==
    /\ nRead = 6
    /\ Len(emitted) = 2
    /\ feed[2] < 128 /\ feed[3] < 128
    /\ feed[5] >= 128
    /\ byteNumber = 0

\* C30: for any byte sequence, between readByte calls byteNumber is 0, 1
\* or 2 and packetReady is False; every emitted packet has its value in
\* 0..65535, its channel in 0..7 and its mode in 0..3; bit 7 of byte1 and
\* byte2 never influences the decoded value.
C30_DecoderTotal ==
    /\ byteNumber \in 0..2
    /\ packetReady = FALSE
    /\ \A i \in 1..Len(emitted) :
          /\ emitted[i][1] \in 0..65535
          /\ emitted[i][2] \in 0..7
          /\ emitted[i][3] \in 0..3
    /\ Len(emitted) = Len(Framing(Fed))
    /\ \A i \in 1..Len(emitted) :
          LET t == Framing(Fed)[i]
          IN  emitted[i][1] = (t[1] % 4) * 16384 + (t[2] % 128) * 128 + (t[3] % 128)

\* a packet whose byte1 had bit 7 set and whose byte2 had it clear
C30_Witness ==
    /\ Len(emitted) >= 1
    /\ Framing(Fed)[1] = <<63, 255, 63>>
    /\ emitted[1] = <<65535 - 64, 3, 3>>

----------------------------------------------------------------------------
(* Properties of the recovery run *)

\* C29: from any decoder state (AwaitSync, HaveFirst or HaveSecond, with
\* any buffer contents) at a frame boundary, a stream of well-formed
\* frames is decoded exactly from its second frame onward, and at most one
\* packet that is not a frame of the stream is emitted before that.
C29_Recovers ==
    /\ Len(emitted) <= (nRead + 2) \div 3
    /\ \A i \in 2..Len(emitted) : emitted[i] = stream.frames[i]
    /\ StreamDone =>
          /\ Len(emitted) = MaxFrames
          /\ DecodedLast(MaxFrames - 1)

\* the decoder started with a byte pending: the first packet is not the
\* first frame, the frames after it are decoded
C29_Witness ==
    /\ StreamDone
    /\ Len(emitted) = MaxFrames
    /\ emitted[1] # stream.frames[1]
    /\ emitted[1][2] = 2
    /\ DecodedLast(MaxFrames - 1)

----------------------------------------------------------------------------
(* Further properties of the move run *)

\* the axes that were off target when the last tick began
OffAtStart == (IF tick.Xa # tick.Xt THEN 1 ELSE 0) + (IF tick.Ya # tick.Yt THEN 1 ELSE 0)

----------------------------------------------------------------------------
(* Properties of the restart run *)

\* the threads of axis a that are inside their while loop
Drivers(a) == {i \in SineInstances : AxisOf(i) = a /\ thr[i].pc \in {"call", "write"}}

\* C31: for any sequence of Start and Stop button events on an axis,
\* interleaved arbitrarily with the execution of the sine threads, at most
\* one sine thread of that axis is inside its while loop at any time.
C31_OneDriver == \A a \in Axes : Cardinality(Drivers(a)) <= 1

----------------------------------------------------------------------------
(* Properties of the draw run *)

\* the corner orders as the specification lists them
SquareOrder == << <<0, 0>>, <<65535, 0>>, <<65535, 65535>>, <<0, 65535>> >>
BowTieOrder == << <<0, 0>>, <<0, 65535>>, <<65535, 0>>, <<65535, 65535>> >>
Listed == IF gui.drawOption = 1 THEN SquareOrder ELSE BowTieOrder
Target == Listed[gui.drawStep + 1]
OnCorner == Xa = Target[1] /\ Ya = Target[2]

\* a step of the run that is a tick of the event loop
IsDrawTick == wire = <<>> /\ (wire' # <<>> \/ gui'.drawStep # gui.drawStep)

\* C33: in square and bow-tie mode drawStep advances, modulo 4, only in a
\* tick that found both axes on the current corner; each tick moves the axes
\* toward the corner at position drawStep of the mode's listed order; and
\* whatever drawStep is, the axes come to stand on its corner while it is
\* still the current step, so that every corner is reached before the next
\* one is targeted
C33_DrawSequencing ==
    /\ [][/\ gui'.drawStep # gui.drawStep =>
                /\ OnCorner
                /\ gui'.drawStep = (gui.drawStep + 1) % 4
                /\ Xa' = Xa /\ Ya' = Ya
          /\ IsDrawTick =>
                /\ Xa' = StepToward(Xa, Target[1])
                /\ Ya' = StepToward(Ya, Target[2])
                /\ OnCorner => gui'.drawStep = (gui.drawStep + 1) % 4]_vars
    /\ \A st \in 0..3 : (gui.drawStep = st) ~> (gui.drawStep = st /\ OnCorner)

\* the run stands on the third corner of the square, about to target the fourth
C33_Witness ==
    /\ gui.drawOption = 1 /\ gui.drawStep = 2
    /\ Xa = 65535 /\ Ya = 65535
    /\ wire = <<>> /\ movesRemaining

====
